---- MODULE Spec2Model ----
(***************************************************************************)
(* Model of the eBay compatibility proxy (server.js): the three POST       *)
(* handlers, the Year fan-out with Promise.allSettled, and the HTML table  *)
(* renderer.  One behaviour is the life of one inbound request.            *)
(*                                                                         *)
(* JavaScript values: objects are records (an absent field is a name that  *)
(* is not in the record's DOMAIN), arrays are sequences, null is Null and  *)
(* the value of an absent field is Undefined.  A rendered row is the       *)
(* sequence of its <td> cells, each with its data-label and its text.      *)
(***************************************************************************)
EXTENDS Integers, Sequences, FiniteSets, TLC

VARIABLES token, endpoint, body, pc, calls, results, outOfOrder, merged, response

vars == <<token, endpoint, body, pc, calls, results, outOfOrder, merged, response>>

(* ---------------- bounds ---------------- *)

MaxFilters == 3     \* longest propertyFilters array of a request
MaxRecords == 1     \* longest compatibilities array of one upstream reply
MaxValues == 2      \* longest propertyValues array of one upstream reply

(* ---------------- JavaScript values ---------------- *)

Undefined == "<undefined>"
Null == [isNull |-> TRUE]
DEFAULT_CATEGORY_ID == "33560"

\* obj.name : Undefined when the object has no such field
Get(obj, name) == IF name \in DOMAIN obj THEN obj[name] ELSE Undefined

\* !v for a string-or-undefined value
Falsy(v) == v = Undefined \/ v = ""

\* a || b
Or(a, b) == IF Falsy(a) THEN b ELSE a

Filter(n, v) == [propertyName |-> n, propertyValue |-> v]

RECURSIVE SeqsUpTo(_, _)
SeqsUpTo(S, n) ==
    IF n = 0 THEN {<<>>}
    ELSE LET shorter == SeqsUpTo(S, n - 1)
         IN  shorter \cup {Append(s, e) : s \in {t \in shorter : Len(t) = n - 1}, e \in S}

RECURSIVE SelectSeqBy(_, _)
\* Array.prototype.filter for the predicate "propertyName # Year" / "= Year"
SelectSeqBy(s, keepYear) ==
    IF s = <<>> THEN <<>>
    ELSE LET rest == SelectSeqBy(Tail(s), keepYear)
         IN  IF (Head(s).propertyName = "Year") = keepYear
             THEN <<Head(s)>> \o rest ELSE rest

(* ---------------- request and upstream universes ---------------- *)

Endpoints == {"get-compatibilities", "get-makes", "get-models"}

FilterEntries ==
    { Filter("Year", "2014"), Filter("Year", "2020"), Filter("Make", "Ram"),
      Filter("Model", "1500"), Filter("Trim", "SLT"), Null }

NumYears(fs) == Cardinality({i \in DOMAIN fs : fs[i] # Null /\ fs[i].propertyName = "Year"})

\* the propertyFilters arrays of the requests: Year filters make up at most
\* half of the array (rounded up), which bounds the width of the fan-out
FilterSeqs == {fs \in SeqsUpTo(FilterEntries, MaxFilters) : 2 * NumYears(fs) <= MaxFilters + 1}

PropertyNamesAsked == <<"Engine", "Trim">>

CompatBodies ==
    {[propertyFilters |-> fs, propertyNames |-> PropertyNamesAsked] : fs \in FilterSeqs}
    \cup {[propertyNames |-> PropertyNamesAsked]}

LookupBodies ==
    {[year |-> y, make |-> m] : y \in {"", "2014"}, m \in {"", "Ram"}}
    \cup {[year |-> y] : y \in {"", "2014"}}
    \cup {[make |-> m] : m \in {"", "Ram"}}

Bodies == CompatBodies \cup LookupBodies

Detail(n, v) == [propertyName |-> n, propertyValue |-> v]

\* Records upstream may return: one without Year, one with Year and Make, one
\* with an empty Year and two Trim details, one lacking compatibilityDetails.
Records ==
    { [compatibilityDetails |-> <<Detail("Engine", "5.7L V8")>>],
      [compatibilityDetails |-> <<Detail("Year", "2019"), Detail("Make", "Dodge")>>],
      [compatibilityDetails |-> <<Detail("Year", ""), Detail("Trim", "Base"), Detail("Trim", "Sport")>>],
      [productId |-> "p1"] }

\* response.data of the multi-compatibility endpoint
CompatData ==
    {[compatibilities |-> rl] : rl \in SeqsUpTo(Records, MaxRecords)}
    \cup {[warnings |-> <<>>]}

\* response.data of the property-values endpoint
LookupData ==
    {[propertyValues |-> vl] : vl \in SeqsUpTo({"Ram", "Ford"}, MaxValues)}
    \cup {[warnings |-> <<>>]}

Pending == [status |-> "pending", value |-> <<>>]
Rejected == [status |-> "rejected", value |-> <<>>]
Fulfilled(v) == [status |-> "fulfilled", value |-> v]

NoResponse == <<>>

(* ---------------- responses ---------------- *)

Html(status, content) == [status |-> status, type |-> "html", content |-> content]
Json(status, content) == [status |-> status, type |-> "json", content |-> content]

\* An async handler whose promise rejects outside any try block: Express 4
\* ignores the rejection (the request is never answered), Express 5 passes it
\* to the default error handler (500).
UnhandledRejection == {NoResponse, <<Html(500, [kind |-> "internal-error"])>>}

(* ---------------- renderer (server.js 28-88) ---------------- *)

\* Object.fromEntries over the details: the last entry of a name wins
fromEntries(ds) ==
    [n \in {ds[i].propertyName : i \in DOMAIN ds} |->
        LET last == CHOOSE i \in DOMAIN ds :
                        /\ ds[i].propertyName = n
                        /\ \A j \in DOMAIN ds : ds[j].propertyName = n => j <= i
        IN  ds[last].propertyValue]

\* baseFilters.Name?.propertyValue
OptValue(bf, name) == IF name \in DOMAIN bf THEN Get(bf[name], "propertyValue") ELSE Undefined

Cell(label, text) == [label |-> label, text |-> text]

\* compatibility.compatibilityDetails.map(...) on a record without the field
createTableRowThrows(compatibility) == "compatibilityDetails" \notin DOMAIN compatibility

\* the bug of reading Make from the record first, as Year is
createTableRow_detailMake(compatibility, bf) ==
    LET details == fromEntries(compatibility.compatibilityDetails)
        year   == Or(Or(Get(details, "Year"), OptValue(bf, "Year")), "")
        make   == Or(Or(Get(details, "Make"), OptValue(bf, "Make")), "")
        model  == Or(OptValue(bf, "Model"), "")
        trim   == Or(Get(details, "Trim"), "")
        engine == Or(Get(details, "Engine"), "")
        notes  == Or(Get(details, "Notes"), "")
    IN  << Cell("Year", year), Cell("Make", make), Cell("Model", model),
           Cell("Trim", trim), Cell("Engine", engine), Cell("Notes", notes) >>

createTableRow(compatibility, bf) ==
    LET details == fromEntries(compatibility.compatibilityDetails)
        year   == Or(Or(Get(details, "Year"), OptValue(bf, "Year")), "")
        make   == Or(OptValue(bf, "Make"), "")
        model  == Or(OptValue(bf, "Model"), "")
        trim   == Or(Get(details, "Trim"), "")
        engine == Or(Get(details, "Engine"), "")
        notes  == Or(Get(details, "Notes"), "")
    IN  << Cell("Year", year), Cell("Make", make), Cell("Model", model),
           Cell("Trim", trim), Cell("Engine", engine), Cell("Notes", notes) >>

displayMake(bf) == Or(OptValue(bf, "Make"), "Vehicle")

NoData(bf) == [kind |-> "nodata", label |-> displayMake(bf)]

generateCompatibilityTableThrows(responseData) ==
    \E i \in DOMAIN responseData : createTableRowThrows(responseData[i])

generateCompatibilityTable(responseData, bf) ==
    IF Len(responseData) = 0
    THEN NoData(bf)
    ELSE [kind |-> "table", label |-> displayMake(bf),
          rows |-> [i \in DOMAIN responseData |-> createTableRow(responseData[i], bf)]]

(* ---------------- POST /api/get-compatibilities (server.js 100-164) ---------------- *)

RECURSIVE reduceFilters(_, _)
reduceFilters(acc, fs) ==
    IF fs = <<>> THEN acc
    ELSE LET f == Head(fs)
             next == IF f # Null /\ ~Falsy(Get(f, "propertyName"))
                     THEN [n \in DOMAIN acc \cup {f.propertyName} |->
                              IF n = f.propertyName THEN f ELSE acc[n]]
                     ELSE acc
         IN  reduceFilters(next, Tail(fs))

EmptyObject == [n \in {} |-> Null]

\* (propertyFilters || []).reduce(...)
baseFilters(b) ==
    reduceFilters(EmptyObject,
                  IF "propertyFilters" \in DOMAIN b THEN b.propertyFilters ELSE <<>>)

\* propertyFilters.filter(f => f.propertyName === "Year") on undefined, or on
\* an array with a null entry, raises a TypeError
selectedYearsThrows(b) ==
    \/ "propertyFilters" \notin DOMAIN b
    \/ \E i \in DOMAIN b.propertyFilters : b.propertyFilters[i] = Null

selectedYears(b) ==
    LET ys == SelectSeqBy(b.propertyFilters, TRUE)
    IN  [i \in DOMAIN ys |-> ys[i].propertyValue]

\* the bug of appending the year without removing the other Year filters
yearFilters_keepsYears(propertyFilters, year) ==
    Append(propertyFilters, Filter("Year", year))

yearFilters(propertyFilters, year) ==
    Append(SelectSeqBy(propertyFilters, FALSE), Filter("Year", year))

yearRequest(b, year) ==
    [url |-> "get_multi_compatibility_property_values",
     categoryId |-> Or(Get(b, "categoryId"), DEFAULT_CATEGORY_ID),
     propertyNames |-> b.propertyNames,
     propertyFilters |-> yearFilters(b.propertyFilters, year)]

\* the bug of Promise.all: settles at the first rejection
AllSettled_failFast(rs) ==
    \/ \A i \in DOMAIN rs : rs[i].status = "fulfilled"
    \/ \E i \in DOMAIN rs : rs[i].status = "rejected"

\* Promise.allSettled: resolves once no branch is pending
AllSettled(rs) == \A i \in DOMAIN rs : rs[i].status # "pending"

RECURSIVE mergedData_firstOnly(_)
\* the bug of taking the first fulfilled branch only (find instead of filter)
mergedData_firstOnly(rs) ==
    IF rs = <<>> THEN <<>>
    ELSE IF Head(rs).status = "fulfilled"
         THEN Head(rs).value
         ELSE mergedData_firstOnly(Tail(rs))

RECURSIVE mergedData(_)
\* results.filter(r => r.status === 'fulfilled').flatMap(r => r.value)
mergedData(rs) ==
    IF rs = <<>> THEN <<>>
    ELSE IF Head(rs).status = "fulfilled"
         THEN Head(rs).value \o mergedData(Tail(rs))
         ELSE mergedData(Tail(rs))

\* response.data.compatibilities || []
compatibilitiesOf(data) ==
    IF "compatibilities" \in DOMAIN data THEN data.compatibilities ELSE <<>>

GetCompatibilities ==
    /\ pc = "start" /\ endpoint = "get-compatibilities"
    /\ IF ~token
       THEN /\ response' = <<Html(401, [kind |-> "auth-error"])>>
            /\ pc' = "done"
       ELSE IF selectedYearsThrows(body)
       THEN /\ response' \in UnhandledRejection
            /\ pc' = "done"
       ELSE /\ pc' = "issuing"
            /\ UNCHANGED response
    /\ UNCHANGED <<token, endpoint, body, calls, results, outOfOrder, merged>>

\* one iteration of selectedYears.map: the callback runs up to its await
IssueBranch ==
    /\ pc = "issuing"
    /\ Len(calls) < Len(selectedYears(body))
    /\ calls' = Append(calls, yearRequest(body, selectedYears(body)[Len(calls) + 1]))
    /\ results' = Append(results, Pending)
    /\ UNCHANGED <<token, endpoint, body, pc, outOfOrder, merged, response>>

\* await Promise.allSettled(yearRequests): the handler yields to the event loop
AwaitAll ==
    /\ pc = "issuing"
    /\ Len(calls) = Len(selectedYears(body))
    /\ pc' = "awaiting"
    /\ UNCHANGED <<token, endpoint, body, calls, results, outOfOrder, merged, response>>

\* the upstream answer of branch i arrives (or the call fails)
BranchSettle(i) ==
    /\ pc = "awaiting" /\ endpoint = "get-compatibilities"
    /\ i \in DOMAIN results /\ results[i] = Pending
    /\ \/ results' = [results EXCEPT ![i] = Rejected]
       \/ \E data \in CompatData :
             results' = [results EXCEPT ![i] = Fulfilled(compatibilitiesOf(data))]
    /\ outOfOrder' = (outOfOrder \/ \E j \in 1..(i - 1) : results[j] = Pending)
    /\ UNCHANGED <<token, endpoint, body, pc, calls, merged, response>>

CompatRespond ==
    /\ pc = "awaiting" /\ endpoint = "get-compatibilities"
    /\ AllSettled(results)
    /\ merged' = mergedData(results)
    /\ LET bf == baseFilters(body)
       IN  response' =
             IF Len(merged') = 0 THEN <<Html(200, NoData(bf))>>
             ELSE IF generateCompatibilityTableThrows(merged')
                  THEN <<Html(502, [kind |-> "upstream-error"])>>
                  ELSE <<Html(200, generateCompatibilityTable(merged', bf))>>
    /\ pc' = "done"
    /\ UNCHANGED <<token, endpoint, body, calls, results, outOfOrder>>

(* ---------------- POST /api/get-makes, /api/get-models (server.js 169-249) ---------------- *)

\* the bug of validating the body before looking at the credential
makesGuard_validatesFirst(tok, b) ==
    IF Falsy(Get(b, "year")) THEN 400
    ELSE IF ~tok THEN 401
    ELSE 0

\* the bug of && for || in the required-field test
modelsGuard_and(tok, b) ==
    IF ~tok THEN 401
    ELSE IF Falsy(Get(b, "year")) /\ Falsy(Get(b, "make")) THEN 400
    ELSE 0

\* the checks before the try block: the status answered, or 0 to go on
makesGuard(tok, b) ==
    IF ~tok THEN 401
    ELSE IF Falsy(Get(b, "year")) THEN 400
    ELSE 0

modelsGuard(tok, b) ==
    IF ~tok THEN 401
    ELSE IF Falsy(Get(b, "year")) \/ Falsy(Get(b, "make")) THEN 400
    ELSE 0

guardError(status, required) ==
    IF status = 401 THEN [error |-> "Missing eBay Token"] ELSE [error |-> required]

makesRequest(b) ==
    [url |-> "get_compatibility_property_values",
     categoryId |-> DEFAULT_CATEGORY_ID,
     propertyFilters |-> <<Filter("Year", Get(b, "year"))>>,
     propertyName |-> "Make"]

modelsRequest(b) ==
    [url |-> "get_compatibility_property_values",
     categoryId |-> DEFAULT_CATEGORY_ID,
     propertyFilters |-> <<Filter("Year", Get(b, "year")), Filter("Make", Get(b, "make"))>>,
     propertyName |-> "Model"]

\* response.data.propertyValues || []
propertyValuesOf(data) ==
    IF "propertyValues" \in DOMAIN data THEN data.propertyValues ELSE <<>>

GetMakes ==
    /\ pc = "start" /\ endpoint = "get-makes"
    /\ LET g == makesGuard(token, body)
       IN  IF g # 0
           THEN /\ response' = <<Json(g, guardError(g, "Year is required"))>>
                /\ pc' = "done"
                /\ UNCHANGED <<calls, results>>
           ELSE /\ calls' = <<makesRequest(body)>>
                /\ results' = <<Pending>>
                /\ pc' = "awaiting"
                /\ UNCHANGED response
    /\ UNCHANGED <<token, endpoint, body, outOfOrder, merged>>

GetModels ==
    /\ pc = "start" /\ endpoint = "get-models"
    /\ LET g == modelsGuard(token, body)
       IN  IF g # 0
           THEN /\ response' = <<Json(g, guardError(g, "Year and Make are required"))>>
                /\ pc' = "done"
                /\ UNCHANGED <<calls, results>>
           ELSE /\ calls' = <<modelsRequest(body)>>
                /\ results' = <<Pending>>
                /\ pc' = "awaiting"
                /\ UNCHANGED response
    /\ UNCHANGED <<token, endpoint, body, outOfOrder, merged>>

\* the awaited axios.post of get-makes settles and the handler runs to its end
MakesSettle ==
    /\ pc = "awaiting" /\ endpoint = "get-makes"
    /\ \/ /\ results' = <<Rejected>>
          /\ response' = <<Json(502, [error |-> "Failed to fetch makes"])>>
       \/ \E data \in LookupData :
          /\ results' = <<Fulfilled(data)>>
          /\ response' = <<Json(200, [makes |-> propertyValuesOf(data)])>>
    /\ pc' = "done"
    /\ UNCHANGED <<token, endpoint, body, calls, outOfOrder, merged>>

ModelsSettle ==
    /\ pc = "awaiting" /\ endpoint = "get-models"
    /\ \/ /\ results' = <<Rejected>>
          /\ response' = <<Json(502, [error |-> "Failed to fetch models"])>>
       \/ \E data \in LookupData :
          /\ results' = <<Fulfilled(data)>>
          /\ response' = <<Json(200, [models |-> propertyValuesOf(data)])>>
    /\ pc' = "done"
    /\ UNCHANGED <<token, endpoint, body, calls, outOfOrder, merged>>

(* ---------------- the command-line script (part_000) ---------------- *)

requestFilters ==
    [Year |-> Filter("Year", "2014"), Make |-> Filter("Make", "Ram"),
     Model |-> Filter("Model", "1500")]

propertiesToReturn == <<"Engine", "Trim", "Year">>

\* the script has no request: its body is its configuration
ScriptBody ==
    [categoryId |-> DEFAULT_CATEGORY_ID,
     propertyFilters |-> <<requestFilters.Year, requestFilters.Make, requestFilters.Model>>,
     propertyNames |-> propertiesToReturn]

createTableRowScript(compatibility, bf) ==
    LET details == fromEntries(compatibility.compatibilityDetails)
        year   == Or(Get(details, "Year"), bf.Year.propertyValue)
        make   == bf.Make.propertyValue
        model  == bf.Model.propertyValue
        trim   == Or(Get(details, "Trim"), "")
        engine == Or(Get(details, "Engine"), "")
        notes  == Or(Get(details, "Notes"), "")
    IN  << Cell("Year", year), Cell("Make", make), Cell("Model", model),
           Cell("Trim", trim), Cell("Engine", engine), Cell("Notes", notes) >>

\* responseBody.compatibilities may be undefined: the data is passed as received
generateCompatibilityTableScript(data, bf) ==
    IF "compatibilities" \notin DOMAIN data \/ Len(data.compatibilities) = 0
    THEN [kind |-> "nodata", label |-> "the selected criteria"]
    ELSE [kind |-> "table",
          label |-> <<bf.Year.propertyValue, bf.Make.propertyValue, bf.Model.propertyValue>>,
          rows |-> [i \in DOMAIN data.compatibilities |->
                       createTableRowScript(data.compatibilities[i], bf)]]

Console(content) == [status |-> 0, type |-> "console", content |-> content]

\* fetchAndGenerateTable up to its await
ScriptFetch ==
    /\ pc = "start" /\ endpoint = "fetchAndGenerateTable"
    /\ calls' = <<[url |-> "get_multi_compatibility_property_values",
                   categoryId |-> body.categoryId,
                   propertyNames |-> body.propertyNames,
                   propertyFilters |-> body.propertyFilters]>>
    /\ results' = <<Pending>>
    /\ pc' = "awaiting"
    /\ UNCHANGED <<token, endpoint, body, outOfOrder, merged, response>>

\* the call settles: the table is printed, or the catch block logs the error
ScriptSettle ==
    /\ pc = "awaiting" /\ endpoint = "fetchAndGenerateTable"
    /\ \/ /\ results' = <<Rejected>>
          /\ merged' = <<>>
          /\ response' = <<Console([kind |-> "error"])>>
       \/ \E data \in CompatData :
          /\ results' = <<Fulfilled(compatibilitiesOf(data))>>
          /\ merged' = compatibilitiesOf(data)
          /\ response' =
                IF generateCompatibilityTableThrows(compatibilitiesOf(data))
                THEN <<Console([kind |-> "error"])>>
                ELSE <<Console(generateCompatibilityTableScript(data, requestFilters))>>
    /\ pc' = "done"
    /\ UNCHANGED <<token, endpoint, body, calls, outOfOrder>>

(* ---------------- initial state ---------------- *)

Init ==
    /\ token \in BOOLEAN
    /\ \/ endpoint \in Endpoints /\ body \in Bodies
       \/ endpoint = "fetchAndGenerateTable" /\ body = ScriptBody
    /\ pc = "start"
    /\ calls = <<>>
    /\ results = <<>>
    /\ outOfOrder = FALSE
    /\ merged = <<>>
    /\ response = NoResponse

Next ==
    \/ GetCompatibilities
    \/ IssueBranch
    \/ AwaitAll
    \/ \E i \in 1..MaxFilters : BranchSettle(i)
    \/ CompatRespond
    \/ GetMakes
    \/ GetModels
    \/ MakesSettle
    \/ ModelsSettle
    \/ ScriptFetch
    \/ ScriptSettle

Spec == Init /\ [][Next]_vars

(* ======================= properties ======================= *)

IsCompat == endpoint = "get-compatibilities"

\* propertyFilters is an array of filter objects
WellFormedFilters == "propertyFilters" \in DOMAIN body /\ \A i \in DOMAIN body.propertyFilters : body.propertyFilters[i] # Null

\* a get-compatibilities request that reaches the fan-out
Served == token /\ IsCompat /\ WellFormedFilters

YearPositions == {i \in DOMAIN body.propertyFilters : body.propertyFilters[i].propertyName = "Year"}

\* the position in propertyFilters of the k-th Year filter
YearPosition(k) ==
    CHOOSE i \in YearPositions : Cardinality({j \in YearPositions : j <= i}) = k

OtherPositions == DOMAIN body.propertyFilters \ YearPositions

\* the position in propertyFilters of the k-th filter that is not a Year filter
OtherPosition(k) ==
    CHOOSE i \in OtherPositions : Cardinality({j \in OtherPositions : j <= i}) = k

FulfilledBranches == {i \in DOMAIN results : results[i].status = "fulfilled"}
RejectedBranches == {i \in DOMAIN results : results[i].status = "rejected"}

RECURSIVE ConcatUpTo(_)
\* the record lists of the fulfilled branches 1..k, one after the other
ConcatUpTo(k) ==
    IF k = 0 THEN <<>>
    ELSE ConcatUpTo(k - 1) \o (IF k \in FulfilledBranches THEN results[k].value ELSE <<>>)

\* where the records of branch k start in the merged sequence
Offset(k) == Len(ConcatUpTo(k - 1))

Status == response[1].status
Content == response[1].content

(* C2: a request with N Year filters issues exactly N upstream calls, the i-th
   carrying the non-Year filters unchanged, in order, followed by the single
   filter (Year, i-th value); the merged result is the concatenation of the
   fulfilled branches' record lists in issuance order, whatever the order in
   which the upstream responses arrived. *)
C2_FanOutCallsAndMergeOrder ==
    (Served /\ pc \in {"awaiting", "done"}) =>
        /\ Len(calls) = Cardinality(YearPositions)
        /\ \A i \in DOMAIN calls :
              LET sent == calls[i].propertyFilters
              IN  /\ Len(sent) = Cardinality(OtherPositions) + 1
                  /\ \A k \in 1..Cardinality(OtherPositions) :
                        sent[k] = body.propertyFilters[OtherPosition(k)]
                  /\ sent[Len(sent)] =
                        Filter("Year", body.propertyFilters[YearPosition(i)].propertyValue)
        /\ pc = "done" => merged = ConcatUpTo(Len(calls))

\* two branches answered out of issuance order with different, non-empty lists
C2_Witness ==
    /\ Served /\ pc = "done" /\ outOfOrder
    /\ Len(calls) = 2 /\ OtherPositions # {}
    /\ FulfilledBranches = {1, 2}
    /\ results[1].value # <<>> /\ results[2].value # <<>>
    /\ results[1].value # results[2].value
    /\ Status = 200

(* C1: with the credential configured and N >= 1 branches, the endpoint
   answers 502 when all N upstream calls fail, and 200 with only the records
   of the succeeded branches when at least one succeeds. *)
C1_AllFailIs502 ==
    (Served /\ pc = "done" /\ Len(calls) >= 1) =>
        IF FulfilledBranches = {}
        THEN Len(response) = 1 /\ Status = 502
        ELSE (\A i \in DOMAIN merged : ~createTableRowThrows(merged[i])) =>
                /\ Len(response) = 1 /\ Status = 200
                /\ merged = ConcatUpTo(Len(calls))

(* C3: a request whose filters carry at most one value per property name (no
   Year filter and no filter at all included) issues exactly one upstream
   call, and that call carries the caller's filter sequence unmodified. *)
AtMostOneValuePerName ==
    \A i, j \in DOMAIN body.propertyFilters :
        body.propertyFilters[i].propertyName = body.propertyFilters[j].propertyName => i = j

C3_SingleCallUnmodified ==
    (Served /\ AtMostOneValuePerName /\ pc \in {"awaiting", "done"}) =>
        /\ Len(calls) = 1
        /\ calls[1].propertyFilters = body.propertyFilters

(* C4: while the credential is absent, every request to any of the three
   endpoints is answered 401 and no upstream call is ever issued, whatever
   the body (401 wins over 400). *)
C4_NoCredentialIs401 ==
    (~token /\ endpoint \in Endpoints) =>
        /\ calls = <<>>
        /\ pc \in {"start", "done"}
        /\ pc = "done" => Len(response) = 1 /\ Status = 401

\* get-models without its required fields and without credential: 401, not 400
C4_Witness ==
    /\ ~token /\ pc = "done" /\ endpoint = "get-models"
    /\ "year" \notin DOMAIN body
    /\ Len(response) = 1 /\ Status = 401 /\ calls = <<>>

(* C5: in a fan-out over several Year values, a record returned by the branch
   issued for Year = v that carries no Year detail is rendered in a row whose
   Year cell is v. *)
HasDetail(record, name) ==
    \E d \in DOMAIN record.compatibilityDetails :
        record.compatibilityDetails[d].propertyName = name

TableSent == pc = "done" /\ Len(response) = 1 /\ Status = 200 /\ Content.kind = "table"

\* a table rendered by the server or printed by the script
TableRendered ==
    \/ Served /\ TableSent
    \/ endpoint = "fetchAndGenerateTable" /\ pc = "done" /\ Content.kind = "table"

CellText(row, label) == (CHOOSE c \in DOMAIN row : row[c].label = label)

C5_YearCellIsBranchYear ==
    (Served /\ TableSent /\ Len(calls) >= 2) =>
        \A k \in FulfilledBranches : \A j \in DOMAIN results[k].value :
            ~HasDetail(results[k].value[j], "Year") =>
                LET row == Content.rows[Offset(k) + j]
                IN  row[CellText(row, "Year")].text =
                        body.propertyFilters[YearPosition(k)].propertyValue

(* C10: with the credential configured, every get-compatibilities request,
   whatever its body, ends with exactly one response, 200 or 502. *)
C10_AlwaysOneResponse ==
    (token /\ IsCompat /\ pc = "done") =>
        Len(response) = 1 /\ Status \in {200, 502}

(* C6 as stated: every cell of every rendered row, for each of the six
   columns, is the record's detail value for that name when the record has
   one, otherwise the caller's filter value for that name when one was
   supplied, otherwise the empty string; for Make and Model as for Year. *)
Columns == <<"Year", "Make", "Model", "Trim", "Engine", "Notes">>

\* the value of the last detail of that name in the record
DetailValue(record, name) ==
    LET ds == record.compatibilityDetails
        at == {d \in DOMAIN ds : ds[d].propertyName = name}
    IN  ds[CHOOSE d \in at : \A e \in at : e <= d].propertyValue

FilterPositions(name) ==
    {i \in DOMAIN body.propertyFilters : body.propertyFilters[i].propertyName = name}

\* the value of the last filter of that name in the request
FilterValue(name) ==
    body.propertyFilters[CHOOSE i \in FilterPositions(name) :
                            \A j \in FilterPositions(name) : j <= i].propertyValue

C6_DetailThenFilterThenEmpty ==
    TableRendered =>
        \A i \in DOMAIN Content.rows : \A c \in DOMAIN Columns :
            Content.rows[i][c].text =
                IF HasDetail(merged[i], Columns[c]) THEN DetailValue(merged[i], Columns[c])
                ELSE IF FilterPositions(Columns[c]) # {} THEN FilterValue(Columns[c])
                ELSE ""

(* C6 amended: the Year cell is the record's Year detail when it is non-empty,
   otherwise the value of the last Year filter of the request when there is
   one and it is non-empty, otherwise empty; the Make and Model cells are the
   value of the request's last filter of that name, or empty, whatever the
   record's details; the Trim, Engine and Notes cells are the record's detail
   when non-empty, otherwise empty, whatever the request's filters. *)
NonEmptyDetail(record, name) == HasDetail(record, name) /\ DetailValue(record, name) # ""
NonEmptyFilter(name) == FilterPositions(name) # {} /\ FilterValue(name) # ""

C6_CellResolution ==
    TableRendered =>
        \A i \in DOMAIN Content.rows : \A c \in DOMAIN Columns :
            Content.rows[i][c].text =
                IF Columns[c] = "Year"
                THEN IF NonEmptyDetail(merged[i], "Year") THEN DetailValue(merged[i], "Year")
                     ELSE IF NonEmptyFilter("Year") THEN FilterValue("Year")
                     ELSE ""
                ELSE IF Columns[c] \in {"Make", "Model"}
                THEN IF NonEmptyFilter(Columns[c]) THEN FilterValue(Columns[c]) ELSE ""
                ELSE IF NonEmptyDetail(merged[i], Columns[c])
                     THEN DetailValue(merged[i], Columns[c])
                     ELSE ""

\* a record with a Make detail, rendered under a Make filter of another value
\* and a Trim filter the record has no detail for
C6_Witness ==
    /\ Served /\ TableSent
    /\ \E i \in DOMAIN merged :
          /\ HasDetail(merged[i], "Make")
          /\ FilterPositions("Make") # {}
          /\ DetailValue(merged[i], "Make") # FilterValue("Make")
          /\ Content.rows[i][2].text = FilterValue("Make")
          /\ FilterPositions("Trim") # {} /\ ~HasDetail(merged[i], "Trim")
          /\ Content.rows[i][4].text = ""

(* C7: the table of a 200 response has one row per record of the merged
   sequence, i.e. as many rows as the fulfilled branches returned records,
   duplicates kept; every row has the six cells, in column order; when the
   merged sequence is empty the body is the no-data paragraph and no table. *)
RECURSIVE SumLen(_)
SumLen(S) ==
    IF S = {} THEN 0
    ELSE LET k == CHOOSE x \in S : TRUE
         IN  Len(results[k].value) + SumLen(S \ {k})

C7_RowCount ==
    (Served /\ pc = "done" /\ Len(response) = 1 /\ Status = 200) =>
        IF SumLen(FulfilledBranches) = 0
        THEN Content.kind = "nodata" /\ "rows" \notin DOMAIN Content
        ELSE /\ Content.kind = "table"
             /\ Len(Content.rows) = SumLen(FulfilledBranches)
             /\ \A i \in DOMAIN Content.rows :
                   /\ Len(Content.rows[i]) = 6
                   /\ \A c \in 1..6 : Content.rows[i][c].label = Columns[c]

\* two branches returned the same record: two equal rows, both kept
C7_Witness ==
    /\ Served /\ TableSent
    /\ FulfilledBranches = {1, 2}
    /\ results[1].value = results[2].value /\ Len(results[1].value) = 1
    /\ Len(Content.rows) = 2 /\ Content.rows[1] = Content.rows[2]
    /\ \E c \in 1..6 : Content.rows[1][c].text = ""

(* C8: every branch call is issued before any is awaited or settles; the
   response is sent only after every issued branch has settled; a rejected
   branch neither keeps another from being issued nor discards another
   branch's fulfilled result. *)
C8_AllIssuedAllSettled ==
    Served =>
        /\ (pc = "awaiting" \/ \E i \in DOMAIN results : results[i].status # "pending")
              => Len(calls) = Cardinality(YearPositions)
        /\ response # <<>> =>
              /\ Len(results) = Cardinality(YearPositions)
              /\ \A i \in DOMAIN results : results[i].status \in {"fulfilled", "rejected"}
        /\ (pc = "done" /\ RejectedBranches # {}) =>
              \A k \in FulfilledBranches : \A j \in DOMAIN results[k].value :
                  merged[Offset(k) + j] = results[k].value[j]

\* the second branch was rejected while the first was still pending, and the
\* first one's records are in the table
C8_Witness ==
    /\ Served /\ TableSent /\ outOfOrder
    /\ Len(calls) = 2
    /\ results[2].status = "rejected"
    /\ results[1].status = "fulfilled" /\ results[1].value # <<>>
    /\ merged = results[1].value

(* C9: with the credential configured, get-makes (year) and get-models (year
   and make) answer 400 without any upstream call when a required field is
   missing or empty; otherwise they issue exactly one upstream call, never a
   second, and answer 200 with upstream's propertyValues (the empty list when
   the field is absent) when it succeeds and 502 when it fails. *)
Missing(field) == field \notin DOMAIN body \/ body[field] = ""

RequiredMissing ==
    IF endpoint = "get-makes" THEN Missing("year") ELSE Missing("year") \/ Missing("make")

ListSent == IF endpoint = "get-makes" THEN Content.makes ELSE Content.models

C9_LookupContract ==
    (token /\ endpoint \in {"get-makes", "get-models"}) =>
        IF RequiredMissing
        THEN /\ calls = <<>>
             /\ pc = "done" => Len(response) = 1 /\ Status = 400
        ELSE /\ Len(calls) = (IF pc = "start" THEN 0 ELSE 1)
             /\ pc = "done" =>
                   /\ Len(response) = 1
                   /\ IF results[1].status = "fulfilled"
                      THEN /\ Status = 200
                           /\ ListSent = (IF "propertyValues" \in DOMAIN results[1].value
                                          THEN results[1].value.propertyValues
                                          ELSE <<>>)
                      ELSE Status = 502

\* get-models answered with the two models upstream returned
C9_Witness ==
    /\ token /\ endpoint = "get-models" /\ pc = "done"
    /\ Len(calls) = 1 /\ Len(calls[1].propertyFilters) = 2
    /\ Len(response) = 1 /\ Status = 200
    /\ Len(Content.models) = 2

====
